---- MODULE Spec2Model ----
(***************************************************************************)
(* A model of ScriptDevAI's ScriptedAI helper layer (sc_creature.cpp):     *)
(* the evade-boundary check, EnterEvadeMode, SelectSpell / CanCast, the    *)
(* spell summary built by FillSpellSummary, and DoResetThreat.             *)
(*                                                                         *)
(* World coordinates and distances are fixed-point integers in hundredths  *)
(* of a yard, so the float literal 448.60f is 44860.                       *)
(***************************************************************************)
EXTENDS Integers, Sequences, FiniteSets, TLC

VARIABLES
    m_uiEvadeCheckCooldown, \* ScriptedAI::m_uiEvadeCheckCooldown (uint32)
    entry,                  \* m_creature->GetEntry()
    pos,                    \* m_creature->GetPositionX/Y/Z()
    victim,                 \* m_creature->getVictim() != nullptr
    evadeMode,              \* m_creature->IsInEvadeMode()
    inCombat,               \* the creature's combat flag
    threatList,             \* m_creature->getThreatManager().getThreatList()
    canHaveThreatList,      \* m_creature->CanHaveThreatList()
    unitsOnMap,             \* guids that m_creature->GetMap()->GetUnit() resolves
    spellStore,             \* GetSpellStore(): the spell database
    SpellSummary,           \* the global TSpellSummary array, by spell id
    heapGarbage,            \* what memory FillSpellSummary never wrote reads as
    m_spells,               \* m_creature->m_spells[0..3]
    power,                  \* m_creature->GetPower(type), by power type
    silenced,               \* m_creature->HasFlag(UNIT_FIELD_FLAGS, UNIT_FLAG_SILENCED)
    targetDist,             \* distance from the creature to the unit it may target
    call,                   \* the handler that ran last, with its arguments
    ret,                    \* what that handler returned, if it returns a bool
    spellRet,               \* the SpellEntry SelectSpell returned: <<id>>, or <<>> for nullptr
    summaryReads,           \* the ids at which that handler read SpellSummary
    callLog,                \* what that handler invoked, in order
    ticks,                  \* boundary checks since the geometric switch was last reached
    elapsed                 \* sum of their diffs, capped

evadeVars  == <<m_uiEvadeCheckCooldown, entry, pos, victim, evadeMode, inCombat>>
threatVars == <<threatList, canHaveThreatList, unitsOnMap>>
spellVars  == <<spellStore, SpellSummary, heapGarbage, m_spells, power, silenced, targetDist>>
obsVars    == <<call, ret, spellRet, summaryReads, callLog>>
tickVars   == <<ticks, elapsed>>
vars == <<evadeVars, threatVars, spellVars, obsVars, tickVars>>

NoCall == [op |-> "none"]

\* Nothing is observed of a handler once the world has moved on.
NoObservation ==
    /\ call' = NoCall /\ ret' = FALSE /\ callLog' = <<>>
    /\ spellRet' = <<>> /\ summaryReads' = {}

RECURSIVE Count(_, _)
\* How many times event e occurs in the log s.
Count(s, e) ==
    IF s = <<>> THEN 0
    ELSE (IF Head(s) = e THEN 1 ELSE 0) + Count(Tail(s), e)

\* Whether event a occurs in s, and every b in s comes after it.
Precedes(s, a, b) ==
    /\ \E i \in 1..Len(s) : s[i] = a
    /\ \A i, j \in 1..Len(s) : (s[i] = a /\ s[j] = b) => i < j

-----------------------------------------------------------------------------
(* Creature entries with an evade area, sc_creature.cpp:399-412 *)

NPC_BROODLORD == 12017
NPC_VOID_REAVER == 19516
NPC_JAN_ALAI == 23578
NPC_TALON_KING_IKISS == 18473
NPC_KARGATH_BLADEFIST == 16808
NPC_NETHERMANCER_SEPETHREA == 19221
NPC_MOROES == 15687
NPC_MOROGRIM_TIDEWALKER == 21213
NPC_ANUBARAK == 29120
NPC_SINDRAGOSA == 36853
NPC_ZARITHRIAN == 39746

RegisteredEntries ==
    { NPC_BROODLORD, NPC_VOID_REAVER, NPC_JAN_ALAI, NPC_TALON_KING_IKISS,
      NPC_KARGATH_BLADEFIST, NPC_NETHERMANCER_SEPETHREA, NPC_MOROES,
      NPC_MOROGRIM_TIDEWALKER, NPC_ANUBARAK, NPC_SINDRAGOSA, NPC_ZARITHRIAN }

\* Entries the switch has no case for (they reach its default label).
UnregisteredEntries == { 1 }

\* The interval the countdown is reset to (constructor and line 417).
EvadeCheckInterval == 2500

(* uint32 values.  TLC's integers are 32-bit signed, so a uint32 is held as  *)
(* the signed integer with the same bits: u < 2^31 is itself, and a          *)
(* negative v stands for 2^32 + v (what a subtraction that wraps gives).     *)
Uint32Less(a, b) == IF (a < 0) = (b < 0) THEN a < b ELSE b < 0

\* a - b modulo 2^32, for operands whose signed difference fits 32 bits.
Uint32Sub(a, b) == a - b

Pt(x, y, z) == [x |-> x, y |-> y, z |-> z]

\* Where the creature spawned: what GetRespawnCoord(x, y, z) writes.
RespawnCoord == Pt(4000, -2000, 1500)

\* GetDistance2d(px, py) < r, on the squares.
WithinDistance2d(p, px, py, r) ==
    (p.x - px) * (p.x - px) + (p.y - py) * (p.y - py) < r * r

\* The positions the creature of each entry is moved between: for every bound
\* of its case, a point on the bound and points on both sides of it.
SamplePositions(e) ==
    CASE e = NPC_BROODLORD ->
           { Pt(0, 0, 44859), Pt(0, 0, 44860), Pt(0, 0, 44861) }
      [] e = NPC_VOID_REAVER ->
           { Pt(43259, 37193, 0), Pt(53758, 37193, 0), Pt(53759, 37193, 0),
             Pt(43259, 26692, 0), Pt(50759, 44693, 0), Pt(50659, 44593, 0) }
      [] e = NPC_JAN_ALAI ->
           { Pt(0, 0, 1199), Pt(0, 0, 1200), Pt(0, 0, 1201) }
      [] e = NPC_TALON_KING_IKISS ->
           { Pt(4000, -2000, 1500), Pt(10999, -2000, 1500), Pt(11000, -2000, 1500),
             Pt(4000, -9001, 9999), Pt(-200, 3600, 1500) }
      [] e = NPC_KARGATH_BLADEFIST ->
           { Pt(20500, 0, 0), Pt(20501, 0, 0), Pt(25499, 0, 0), Pt(25500, 0, 0),
             Pt(30000, 0, 0), Pt(-100, 0, 0) }
      [] e = NPC_NETHERMANCER_SEPETHREA ->
           { Pt(20000, 0, 0), Pt(26600, 0, 0), Pt(26601, 0, 0), Pt(30000, 0, 0) }
      [] e = NPC_MOROES ->
           { Pt(-1100000, -190000, 0), Pt(-1102773, -190000, 0),
             Pt(-1094664, -190000, 0), Pt(-1100000, -195238, 0),
             Pt(-1100000, -186111, 0), Pt(-1100000, -186112, 0),
             Pt(-1094665, -195237, 0), Pt(0, 0, 0) }
      [] e = NPC_MOROGRIM_TIDEWALKER ->
           { Pt(40000, 25000, 0), Pt(40000, 90000, 0), Pt(30412, 25000, 0),
             Pt(30412, 90000, 0), Pt(50000, 25000, 0), Pt(50000, 22800, 0),
             Pt(50000, 28100, 0), Pt(45735, -5000, 0), Pt(30413, 0, 0) }
      [] e = NPC_ANUBARAK ->
           { Pt(0, 22800, 0), Pt(0, 22801, 0), Pt(40000, 25000, 0),
             Pt(0, 28099, 0), Pt(0, 28100, 0), Pt(40000, 90000, 0) }
      [] e = NPC_SINDRAGOSA ->
           { Pt(431400, 0, 0), Pt(431401, 0, 0), Pt(400000, 0, 0) }
      [] e = NPC_ZARITHRIAN ->
           { Pt(0, 0, 8699), Pt(0, 0, 8700), Pt(0, 0, 8701) }
      [] OTHER ->
           { Pt(0, 0, 0), Pt(30000, 25000, 50000) }

-----------------------------------------------------------------------------
(* ScriptedAI::EnterEvadeIfOutOfCombatArea, the countdown (lines 416-422) *)

\* A slip: the comparison of line 416 written with <=.
EvadeCheckDue_Inclusive(cooldown, diff) ==
    Uint32Less(cooldown, diff) \/ cooldown = diff

\* line 416: the countdown has run out for this diff.
EvadeCheckDue(cooldown, diff) == Uint32Less(cooldown, diff)

\* A slip: the two branches of lines 416-422 exchanged.
NextEvadeCheckCooldown_Swapped(cooldown, diff) ==
    IF EvadeCheckDue(cooldown, diff)
    THEN Uint32Sub(cooldown, diff)
    ELSE EvadeCheckInterval

\* lines 417 and 420: the countdown after the call, in uint32 arithmetic.
NextEvadeCheckCooldown(cooldown, diff) ==
    IF EvadeCheckDue(cooldown, diff)
    THEN EvadeCheckInterval
    ELSE Uint32Sub(cooldown, diff)

(* The switch of lines 431-482: "inside" is a case that returns false,      *)
(* "outside" one that breaks out to EnterEvadeMode, "undefined" the default *)
(* label.  NPC_MOROGRIM_TIDEWALKER's case has no break and runs on into     *)
(* NPC_ANUBARAK's.                                                          *)
CombatAreaCheck(e, p) ==
    LET x == IF e = NPC_TALON_KING_IKISS THEN RespawnCoord.x ELSE p.x
        y == IF e = NPC_TALON_KING_IKISS THEN RespawnCoord.y ELSE p.y
        z == IF e = NPC_TALON_KING_IKISS THEN RespawnCoord.z ELSE p.z
        anubarak == IF y < 28100 /\ y > 22800 THEN "inside" ELSE "outside"
    IN  CASE e = NPC_BROODLORD ->
               IF z > 44860 THEN "inside" ELSE "outside"
          [] e = NPC_VOID_REAVER ->
               IF WithinDistance2d(p, 43259, 37193, 10500) THEN "inside" ELSE "outside"
          [] e = NPC_JAN_ALAI ->
               IF z > 1200 THEN "inside" ELSE "outside"
          [] e = NPC_TALON_KING_IKISS ->
               IF WithinDistance2d(p, x, y, 7000) THEN "inside" ELSE "outside"
          [] e = NPC_KARGATH_BLADEFIST ->
               IF x < 25500 /\ x > 20500 THEN "inside" ELSE "outside"
          [] e = NPC_NETHERMANCER_SEPETHREA ->
               IF x > 26600 THEN "inside" ELSE "outside"
          [] e = NPC_MOROES ->
               IF x > -1102773 /\ x < -1094664 /\ y > -195238 /\ y < -186111
               THEN "inside" ELSE "outside"
          [] e = NPC_MOROGRIM_TIDEWALKER ->
               IF x > 30412 /\ x < 45735 THEN "inside" ELSE anubarak
          [] e = NPC_ANUBARAK -> anubarak
          [] e = NPC_SINDRAGOSA ->
               IF x > 431400 THEN "inside" ELSE "outside"
          [] e = NPC_ZARITHRIAN ->
               IF z > 8700 THEN "inside" ELSE "outside"
          [] OTHER -> "undefined"

(* CreatureAI::EnterEvadeMode, the base engine's cleanup: threat dropped,   *)
(* attack stopped, combat left, the creature sent home.                     *)
CreatureAI_EnterEvadeMode ==
    /\ threatList' = <<>>
    /\ victim' = FALSE
    /\ inCombat' = FALSE
    /\ evadeMode' = TRUE

\* A slip: Reset() called before the base cleanup.
EnterEvadeModeLog_ResetFirst == << "Reset", "CreatureAI::EnterEvadeMode" >>

\* What ScriptedAI::EnterEvadeMode invokes, in order (lines 68-69).
EnterEvadeModeLog == << "CreatureAI::EnterEvadeMode", "Reset" >>

\* ScriptedAI::EnterEvadeMode's effect on the creature (lines 66-70); Reset()
\* is the script's hook and touches nothing modelled here.
EnterEvadeModeEffect == CreatureAI_EnterEvadeMode

\* A slip: line 424 without its getVictim() test.
EvadeCheckOutcome_NoVictimCheck(diff) ==
    IF ~EvadeCheckDue(m_uiEvadeCheckCooldown, diff)
    THEN [log |-> <<>>, ret |-> FALSE, evade |-> FALSE]
    ELSE IF evadeMode
    THEN [log |-> <<>>, ret |-> FALSE, evade |-> FALSE]
    ELSE LET area == CombatAreaCheck(entry, pos)
         IN  CASE area = "inside" ->
                    [log |-> << "switch" >>, ret |-> FALSE, evade |-> FALSE]
               [] area = "undefined" ->
                    [log |-> << "switch", "script_error_log" >>,
                     ret |-> FALSE, evade |-> FALSE]
               [] OTHER ->
                    [log |-> << "switch", "EnterEvadeMode" >> \o EnterEvadeModeLog,
                     ret |-> TRUE, evade |-> TRUE]

\* What one call of EnterEvadeIfOutOfCombatArea(diff) invokes and returns.
EvadeCheckOutcome(diff) ==
    IF ~EvadeCheckDue(m_uiEvadeCheckCooldown, diff)
    THEN [log |-> <<>>, ret |-> FALSE, evade |-> FALSE]
    ELSE IF evadeMode \/ ~victim
    THEN [log |-> <<>>, ret |-> FALSE, evade |-> FALSE]
    ELSE LET area == CombatAreaCheck(entry, pos)
         IN  CASE area = "inside" ->
                    [log |-> << "switch" >>, ret |-> FALSE, evade |-> FALSE]
               [] area = "undefined" ->
                    [log |-> << "switch", "script_error_log" >>,
                     ret |-> FALSE, evade |-> FALSE]
               [] OTHER ->
                    [log |-> << "switch", "EnterEvadeMode" >> \o EnterEvadeModeLog,
                     ret |-> TRUE, evade |-> TRUE]

\* bool ScriptedAI::EnterEvadeIfOutOfCombatArea(const uint32 diff), lines 414-486
EnterEvadeIfOutOfCombatArea(diff) ==
    LET out == EvadeCheckOutcome(diff)
    IN  /\ m_uiEvadeCheckCooldown' = NextEvadeCheckCooldown(m_uiEvadeCheckCooldown, diff)
        /\ IF out.evade
           THEN EnterEvadeModeEffect
           ELSE UNCHANGED <<threatList, victim, inCombat, evadeMode>>
        /\ call' = [op |-> "EnterEvadeIfOutOfCombatArea", diff |-> diff]
        /\ ret' = out.ret
        /\ callLog' = out.log
        /\ spellRet' = <<>> /\ summaryReads' = {}
        /\ UNCHANGED <<entry, pos, canHaveThreatList, unitsOnMap, spellVars>>

\* void ScriptedAI::EnterEvadeMode(), called by the engine (lines 66-70)
EnterEvadeMode ==
    /\ EnterEvadeModeEffect
    /\ call' = [op |-> "EnterEvadeMode"]
    /\ ret' = FALSE
    /\ callLog' = EnterEvadeModeLog
    /\ spellRet' = <<>> /\ summaryReads' = {}
    /\ UNCHANGED <<m_uiEvadeCheckCooldown, entry, pos, canHaveThreatList, unitsOnMap, spellVars>>

-----------------------------------------------------------------------------
(* ScriptedAI::DoResetThreat, lines 311-327 *)

\* HostileReference::addThreatPercent as modifyThreatPercent reaches it: the
\* entry's threat scaled by (100 + percent) / 100; the entry stays in the list.
ModifyThreatPercent(threat, percent) == (threat * (100 + percent)) \div 100

\* ThreatManager::getThreat(unit): the threat of the unit's entry in list.
GetThreat(list, guid) ==
    IF \E i \in 1..Len(list) : list[i].guid = guid
    THEN list[CHOOSE i \in 1..Len(list) : list[i].guid = guid].threat
    ELSE 0

\* The percentage DoResetThreat passes to modifyThreatPercent (line 325).
ResetThreatPercent == -100

\* A slip: the entries that are reset are taken out of the list.
ResetThreatLoop_Erase(list, i, units) ==
    SelectSeq(list, LAMBDA r : ~(r.guid \in units /\ r.threat # 0))

RECURSIVE ResetThreatLoop(_, _, _)
\* The loop of lines 320-326 from entry i on: each entry's unit is looked up
\* on the map and, if found with threat, its threat is modified by -100%.
ResetThreatLoop(list, i, units) ==
    IF i > Len(list) THEN list
    ELSE LET guid == list[i].guid
             next == IF guid \in units /\ GetThreat(list, guid) # 0
                     THEN [list EXCEPT ![i].threat =
                              ModifyThreatPercent(@, ResetThreatPercent)]
                     ELSE list
         IN  ResetThreatLoop(next, i + 1, units)

\* void ScriptedAI::DoResetThreat()
DoResetThreat ==
    /\ IF ~canHaveThreatList \/ threatList = <<>>
       THEN /\ callLog' = << "script_error_log" >>
            /\ UNCHANGED threatList
       ELSE /\ callLog' = <<>>
            /\ threatList' = ResetThreatLoop(threatList, 1, unitsOnMap)
    /\ call' = [op |-> "DoResetThreat"]
    /\ ret' = FALSE
    /\ spellRet' = <<>> /\ summaryReads' = {}
    /\ UNCHANGED <<evadeVars, canHaveThreatList, unitsOnMap, spellVars>>

-----------------------------------------------------------------------------
(* The spell summary: TSpellSummary and FillSpellSummary, lines 15-20, 226-309 *)

\* enum SelectTarget: the bit of TSpellSummary::Targets is 1 << (value - 1)
SELECT_TARGET_DONTCARE == 0
SELECT_TARGET_SELF == 1
SELECT_TARGET_SINGLE_ENEMY == 2
SELECT_TARGET_AOE_ENEMY == 3
SELECT_TARGET_ANY_ENEMY == 4
SELECT_TARGET_SINGLE_FRIEND == 5
SELECT_TARGET_AOE_FRIEND == 6
SELECT_TARGET_ANY_FRIEND == 7

\* enum SelectEffect: the bit of TSpellSummary::Effects is 1 << (value - 1)
SELECT_EFFECT_DONTCARE == 0
SELECT_EFFECT_DAMAGE == 1
SELECT_EFFECT_HEALING == 2
SELECT_EFFECT_AURA == 3

\* The aura name FillSpellSummary compares with (line 301): a periodic heal.
SPELL_AURA_PERIODIC_HEAL == 8

\* The effect slots of a SpellEntry (the loop bound of line 242).
MAX_EFFECT_INDEX == 3

\* The spell slots of a creature (the loop bound of line 133).
CREATURE_MAX_SPELLS == 4

\* Whether bit k (from 0) is set in the uint8 v.
HasBit(v, k) == (v \div (2 ^ k)) % 2 = 1

\* v | (1 << k), in a uint8.
SetBit(v, k) == IF HasBit(v, k) THEN v ELSE (v + 2 ^ k) % 256

\* a & b is not zero, for masks of up to 8 bits.
BitAndNonZero(a, b) == \E k \in 0..7 : HasBit(a, k) /\ HasBit(b, k)

\* v |= 1 << (sel - 1) when cond holds: one if-statement of lines 245-306.
OrIf(v, cond, sel) == IF cond THEN SetBit(v, sel - 1) ELSE v

\* A slip: TARGET_CASTER_COORDINATES left out of the any-enemy and any-friend
\* lists (lines 265 and 287).
SlotTargets_NoCasterCoordinates(v, t) ==
    LET t1 == OrIf(v, t = "TARGET_SELF", SELECT_TARGET_SELF)
        t2 == OrIf(t1, t \in {"TARGET_CHAIN_DAMAGE", "TARGET_CURRENT_ENEMY_COORDINATES"},
                   SELECT_TARGET_SINGLE_ENEMY)
        t3 == OrIf(t2, t \in {"TARGET_ALL_ENEMY_IN_AREA", "TARGET_ALL_ENEMY_IN_AREA_INSTANT",
                              "TARGET_CASTER_COORDINATES",
                              "TARGET_ALL_ENEMY_IN_AREA_CHANNELED"},
                   SELECT_TARGET_AOE_ENEMY)
        t4 == OrIf(t3, t \in {"TARGET_CHAIN_DAMAGE", "TARGET_CURRENT_ENEMY_COORDINATES",
                              "TARGET_ALL_ENEMY_IN_AREA", "TARGET_ALL_ENEMY_IN_AREA_INSTANT",
                              "TARGET_ALL_ENEMY_IN_AREA_CHANNELED"},
                   SELECT_TARGET_ANY_ENEMY)
        t5 == OrIf(t4, t \in {"TARGET_SELF", "TARGET_SINGLE_FRIEND", "TARGET_SINGLE_PARTY"},
                   SELECT_TARGET_SINGLE_FRIEND)
        t6 == OrIf(t5, t \in {"TARGET_ALL_PARTY_AROUND_CASTER", "TARGET_AREAEFFECT_PARTY",
                              "TARGET_CASTER_COORDINATES"},
                   SELECT_TARGET_AOE_FRIEND)
    IN  OrIf(t6, t \in {"TARGET_SELF", "TARGET_SINGLE_FRIEND", "TARGET_SINGLE_PARTY",
                        "TARGET_ALL_PARTY_AROUND_CASTER", "TARGET_AREAEFFECT_PARTY"},
             SELECT_TARGET_ANY_FRIEND)

\* Targets after the seven if-statements of lines 245-288 for one slot whose
\* EffectImplicitTargetA is t.
SlotTargets(v, t) ==
    LET t1 == OrIf(v, t = "TARGET_SELF", SELECT_TARGET_SELF)
        t2 == OrIf(t1, t \in {"TARGET_CHAIN_DAMAGE", "TARGET_CURRENT_ENEMY_COORDINATES"},
                   SELECT_TARGET_SINGLE_ENEMY)
        t3 == OrIf(t2, t \in {"TARGET_ALL_ENEMY_IN_AREA", "TARGET_ALL_ENEMY_IN_AREA_INSTANT",
                              "TARGET_CASTER_COORDINATES",
                              "TARGET_ALL_ENEMY_IN_AREA_CHANNELED"},
                   SELECT_TARGET_AOE_ENEMY)
        t4 == OrIf(t3, t \in {"TARGET_CHAIN_DAMAGE", "TARGET_CURRENT_ENEMY_COORDINATES",
                              "TARGET_ALL_ENEMY_IN_AREA", "TARGET_ALL_ENEMY_IN_AREA_INSTANT",
                              "TARGET_CASTER_COORDINATES",
                              "TARGET_ALL_ENEMY_IN_AREA_CHANNELED"},
                   SELECT_TARGET_ANY_ENEMY)
        t5 == OrIf(t4, t \in {"TARGET_SELF", "TARGET_SINGLE_FRIEND", "TARGET_SINGLE_PARTY"},
                   SELECT_TARGET_SINGLE_FRIEND)
        t6 == OrIf(t5, t \in {"TARGET_ALL_PARTY_AROUND_CASTER", "TARGET_AREAEFFECT_PARTY",
                              "TARGET_CASTER_COORDINATES"},
                   SELECT_TARGET_AOE_FRIEND)
    IN  OrIf(t6, t \in {"TARGET_SELF", "TARGET_SINGLE_FRIEND", "TARGET_SINGLE_PARTY",
                        "TARGET_ALL_PARTY_AROUND_CASTER", "TARGET_AREAEFFECT_PARTY",
                        "TARGET_CASTER_COORDINATES"},
             SELECT_TARGET_ANY_FRIEND)

\* Effects after the three if-statements of lines 291-306 for one slot whose
\* Effect is e and whose EffectApplyAuraName is aura.
SlotEffects(v, e, aura) ==
    LET e1 == OrIf(v, e \in {"SPELL_EFFECT_SCHOOL_DAMAGE", "SPELL_EFFECT_INSTAKILL",
                             "SPELL_EFFECT_ENVIRONMENTAL_DAMAGE",
                             "SPELL_EFFECT_HEALTH_LEECH"},
                   SELECT_EFFECT_DAMAGE)
        e2 == OrIf(e1, \/ e \in {"SPELL_EFFECT_HEAL", "SPELL_EFFECT_HEAL_MAX_HEALTH",
                                 "SPELL_EFFECT_HEAL_MECHANICAL"}
                       \/ (e = "SPELL_EFFECT_APPLY_AURA" /\ aura = SPELL_AURA_PERIODIC_HEAL),
                   SELECT_EFFECT_HEALING)
    IN  OrIf(e2, e = "SPELL_EFFECT_APPLY_AURA", SELECT_EFFECT_AURA)

RECURSIVE SummaryOfSlots(_, _, _)
\* The loop of lines 242-307 from slot j on, over the entry sum so far.
SummaryOfSlots(spell, j, sum) ==
    IF j > MAX_EFFECT_INDEX THEN sum
    ELSE SummaryOfSlots(spell, j + 1,
            [Targets |-> SlotTargets(sum.Targets, spell.EffectImplicitTargetA[j]),
             Effects |-> SlotEffects(sum.Effects, spell.Effect[j],
                                     spell.EffectApplyAuraName[j])])

ZeroSummary == [Targets |-> 0, Effects |-> 0]

\* GetSpellStore()->GetMaxEntry()
GetMaxEntry(store) == store.maxEntry

\* GetSpellStore()->LookupEntry<SpellEntry>(id) is not nullptr.
SpellExists(store, id) == id \in DOMAIN store.entries

\* A slip: the two assignments of lines 234-235 placed after the continue of
\* line 240, so that the entry of a missing spell keeps what new[] left there.
BuildSpellSummary_ZeroAfterLookup(store, garbage) ==
    [id \in 0..(GetMaxEntry(store) - 1) |->
        IF SpellExists(store, id)
        THEN SummaryOfSlots(store.entries[id], 1, ZeroSummary)
        ELSE garbage]

\* The array FillSpellSummary leaves: one entry per id below GetMaxEntry(),
\* allocated by new[] (holding garbage), zeroed, and filled from the spell's
\* slots if the spell exists.
BuildSpellSummary(store, garbage) ==
    [id \in 0..(GetMaxEntry(store) - 1) |->
        IF SpellExists(store, id)
        THEN SummaryOfSlots(store.entries[id], 1, ZeroSummary)
        ELSE ZeroSummary]

\* The array has been built (the pointer is set).
SummaryBuilt == DOMAIN SpellSummary # {}

\* SpellSummary[id] as the program reads it: the entry, or for an id the
\* array does not hold, whatever lies there.
SpellSummaryAt(id) ==
    IF id \in DOMAIN SpellSummary THEN SpellSummary[id] ELSE heapGarbage

-----------------------------------------------------------------------------
(* ScriptedAI::SelectSpell and ScriptedAI::CanCast, lines 113-224 *)

\* GetSpellRangeStore(): minRange and maxRange by rangeIndex, in yards.
SpellRangeStore == (1 :> [minRange |-> 0, maxRange |-> 5])
                @@ (2 :> [minRange |-> 8, maxRange |-> 30])

\* GetSpellRangeStore()->LookupEntry(rangeIndex) is not nullptr.
RangeExists(rangeIndex) == rangeIndex \in DOMAIN SpellRangeStore

\* m_creature->IsWithinDistInMap(target, dist)
IsWithinDistInMap(dist) == targetDist <= dist

\* m_creature->IsInRange(target, minRange, maxRange)
IsInRange(minRange, maxRange) == minRange <= targetDist /\ targetDist <= maxRange

\* m_creature->GetPower((Powers)powerType)
GetPower(powerType) == power[powerType]

\* A slip: the mana check of lines 166-167 left out.
SpellViable_NoManaCheck(i, a) ==
    LET id == m_spells[i]
        info == spellStore.entries[id]
        range == SpellRangeStore[info.rangeIndex]
    IN  /\ SpellExists(spellStore, id)
        /\ ~(a.selectTargets # 0 /\ ~HasBit(SpellSummaryAt(id).Targets, a.selectTargets - 1))
        /\ ~(a.selectEffects # 0 /\ ~HasBit(SpellSummaryAt(id).Effects, a.selectEffects - 1))
        /\ ~(a.school >= 0 /\ BitAndNonZero(info.SchoolMask, a.school))
        /\ ~(a.mechanic >= 0 /\ info.Mechanic # a.mechanic)
        /\ ~(a.powerCostMin # 0 /\ info.manaCost < a.powerCostMin)
        /\ ~(a.powerCostMax # 0 /\ info.manaCost > a.powerCostMax)
        /\ RangeExists(info.rangeIndex)
        /\ ~(a.rangeMin # 0 /\ range.maxRange < a.rangeMin)
        /\ ~(a.rangeMax # 0 /\ range.maxRange > a.rangeMax)
        /\ ~(IsWithinDistInMap(range.minRange) \/ ~IsWithinDistInMap(range.maxRange))

\* Lines 135-185 for slot i: TRUE if the loop body reaches line 188, FALSE if
\* it leaves through one of the continues.
SpellViable(i, a) ==
    LET id == m_spells[i]
        info == spellStore.entries[id]
        range == SpellRangeStore[info.rangeIndex]
    IN  /\ SpellExists(spellStore, id)
        /\ ~(a.selectTargets # 0 /\ ~HasBit(SpellSummaryAt(id).Targets, a.selectTargets - 1))
        /\ ~(a.selectEffects # 0 /\ ~HasBit(SpellSummaryAt(id).Effects, a.selectEffects - 1))
        /\ ~(a.school >= 0 /\ BitAndNonZero(info.SchoolMask, a.school))
        /\ ~(a.mechanic >= 0 /\ info.Mechanic # a.mechanic)
        /\ ~(a.powerCostMin # 0 /\ info.manaCost < a.powerCostMin)
        /\ ~(a.powerCostMax # 0 /\ info.manaCost > a.powerCostMax)
        /\ ~(info.manaCost > GetPower(info.powerType))
        /\ RangeExists(info.rangeIndex)
        /\ ~(a.rangeMin # 0 /\ range.maxRange < a.rangeMin)
        /\ ~(a.rangeMax # 0 /\ range.maxRange > a.rangeMax)
        /\ ~(IsWithinDistInMap(range.minRange) \/ ~IsWithinDistInMap(range.maxRange))

\* The ids at which the loop body reads SpellSummary for slot i (lines 143
\* and 147; && does not evaluate its right side when the filter is 0).
SummaryReadsOf(i, a) ==
    LET id == m_spells[i]
    IN  IF SpellExists(spellStore, id) /\ (a.selectTargets # 0 \/ a.selectEffects # 0)
        THEN {id} ELSE {}

RECURSIVE ViableSpells(_, _, _)
\* The loop of lines 133-190 from slot i on: spellInfos[0..spellCount-1].
ViableSpells(i, a, spellInfos) ==
    IF i >= CREATURE_MAX_SPELLS THEN spellInfos
    ELSE ViableSpells(i + 1, a,
            IF SpellViable(i, a) THEN Append(spellInfos, m_spells[i]) ELSE spellInfos)

\* What SelectSpell returns when urand draws rnd: <<>> for nullptr, else <<id>>.
SelectSpellResult(a, rnd) ==
    IF ~a.target THEN <<>>
    ELSE IF silenced THEN <<>>
    ELSE LET spellInfos == ViableSpells(0, a, <<>>)
             spellCount == Len(spellInfos)
         IN  IF spellCount = 0 THEN <<>>
             ELSE << spellInfos[1 + rnd] >>

\* What urand(0, spellCount - 1) of line 196 may draw.
UrandDraws(a) ==
    LET spellCount == Len(ViableSpells(0, a, <<>>))
    IN  IF spellCount = 0 THEN {0} ELSE 0..(spellCount - 1)

\* SpellEntry const* ScriptedAI::SelectSpell(target, school, mechanic,
\* selectTargets, powerCostMin, powerCostMax, rangeMin, rangeMax, selectEffects).
\* It runs once the scripts are loaded, which is after FillSpellSummary.
SelectSpell(a) ==
    /\ SummaryBuilt
    /\ \E rnd \in UrandDraws(a) :
          spellRet' = SelectSpellResult(a, rnd)
    /\ summaryReads' =
          IF ~a.target \/ silenced THEN {}
          ELSE UNION { SummaryReadsOf(i, a) : i \in 0..(CREATURE_MAX_SPELLS - 1) }
    /\ call' = [op |-> "SelectSpell", args |-> a]
    /\ ret' = FALSE /\ callLog' = <<>>
    /\ UNCHANGED <<evadeVars, threatVars, spellVars>>

\* A slip: the power check of line 210 made for triggered casts too.
CanCastResult_NoTriggeredBypass(target, spellInfo, triggered) ==
    IF ~target \/ spellInfo = <<>> THEN FALSE
    ELSE LET info == spellStore.entries[spellInfo[1]]
         IN  IF ~triggered /\ silenced THEN FALSE
             ELSE IF GetPower(info.powerType) < info.manaCost THEN FALSE
             ELSE IF ~RangeExists(info.rangeIndex) THEN FALSE
             ELSE IsInRange(SpellRangeStore[info.rangeIndex].minRange,
                            SpellRangeStore[info.rangeIndex].maxRange)

\* What CanCast returns; spellInfo is <<>> for nullptr, else <<id>>.
CanCastResult(target, spellInfo, triggered) ==
    IF ~target \/ spellInfo = <<>> THEN FALSE
    ELSE LET info == spellStore.entries[spellInfo[1]]
         IN  IF ~triggered /\ silenced THEN FALSE
             ELSE IF ~triggered /\ GetPower(info.powerType) < info.manaCost THEN FALSE
             ELSE IF ~RangeExists(info.rangeIndex) THEN FALSE
             ELSE IsInRange(SpellRangeStore[info.rangeIndex].minRange,
                            SpellRangeStore[info.rangeIndex].maxRange)

\* bool ScriptedAI::CanCast(Unit* target, SpellEntry const* spellInfo, bool triggered)
CanCast(target, spellInfo, triggered) ==
    /\ ret' = CanCastResult(target, spellInfo, triggered)
    /\ call' = [op |-> "CanCast", target |-> target, spellInfo |-> spellInfo,
                triggered |-> triggered]
    /\ spellRet' = <<>> /\ summaryReads' = {} /\ callLog' = <<>>
    /\ UNCHANGED <<evadeVars, threatVars, spellVars>>

\* void FillSpellSummary()
FillSpellSummary ==
    /\ SpellSummary' = BuildSpellSummary(spellStore, heapGarbage)
    /\ call' = [op |-> "FillSpellSummary"]
    /\ ret' = FALSE /\ spellRet' = <<>> /\ summaryReads' = {} /\ callLog' = <<>>
    /\ UNCHANGED <<evadeVars, threatVars, spellStore, heapGarbage, m_spells, power,
                   silenced, targetDist>>

-----------------------------------------------------------------------------
(* The world around the creature *)

\* A hostile unit is acquired: the creature has a victim and is in combat.
Aggro ==
    /\ ~victim
    /\ victim' = TRUE
    /\ inCombat' = TRUE
    /\ UNCHANGED <<m_uiEvadeCheckCooldown, entry, pos, evadeMode, threatVars>>
    /\ UNCHANGED spellVars
    /\ NoObservation

\* The creature moves (chasing, or walking home).
Move ==
    /\ \E p \in SamplePositions(entry) : p # pos /\ pos' = p
    /\ UNCHANGED <<m_uiEvadeCheckCooldown, entry, victim, evadeMode, inCombat, threatVars>>
    /\ UNCHANGED spellVars
    /\ NoObservation

\* The creature arrives home: evade mode ends.
ReachHome ==
    /\ evadeMode
    /\ evadeMode' = FALSE
    /\ UNCHANGED <<m_uiEvadeCheckCooldown, entry, pos, victim, inCombat, threatVars>>
    /\ UNCHANGED spellVars
    /\ NoObservation

\* The state after construction of a creature of one of the entries E.
InitCreature(E) ==
    /\ m_uiEvadeCheckCooldown = EvadeCheckInterval
    /\ entry \in E
    /\ pos \in SamplePositions(entry)
    /\ victim = FALSE
    /\ evadeMode = FALSE
    /\ inCombat = FALSE
    /\ call = NoCall /\ ret = FALSE /\ callLog = <<>>
    /\ spellRet = <<>> /\ summaryReads = {}

InitNoThreat ==
    /\ threatList = <<>>
    /\ canHaveThreatList = TRUE
    /\ unitsOnMap = {}

\* A creature that casts nothing: its slots are empty and nothing reads the
\* spell summary.
InitNoSpells ==
    /\ spellStore = [maxEntry |-> 0, entries |-> <<>>]
    /\ SpellSummary = <<>>
    /\ heapGarbage = [Targets |-> 0, Effects |-> 0]
    /\ m_spells = [i \in 0..3 |-> 0]
    /\ power = [POWER_MANA |-> 0, POWER_RAGE |-> 0]
    /\ silenced = FALSE
    /\ targetDist = 0

InitTicks == ticks = 0 /\ elapsed = 0

\* The diffs the boundary check is called with.
Diffs == { 0, 1000, 1500, 2500, 2501 }

Init ==
    /\ InitCreature(RegisteredEntries \cup UnregisteredEntries)
    /\ InitNoThreat /\ InitNoSpells /\ InitTicks

EvadeCheck == \E diff \in Diffs : EnterEvadeIfOutOfCombatArea(diff) /\ UNCHANGED tickVars

EngineEvade == EnterEvadeMode /\ UNCHANGED tickVars

World == (Aggro \/ Move \/ ReachHome) /\ UNCHANGED tickVars

Next == EvadeCheck \/ EngineEvade \/ World

Spec == Init /\ [][Next]_vars

-----------------------------------------------------------------------------
(* The countdown alone, through every value it takes: one registered and   *)
(* one unregistered entry, and diffs that step it by one.                  *)

CooldownDiffs == { 0, 1, 2499, 2500, 2501 }

InitCooldown ==
    /\ InitCreature({NPC_NETHERMANCER_SEPETHREA} \cup UnregisteredEntries)
    /\ InitNoThreat /\ InitNoSpells /\ InitTicks

CooldownCheck ==
    \E diff \in CooldownDiffs : EnterEvadeIfOutOfCombatArea(diff) /\ UNCHANGED tickVars

NextCooldown == CooldownCheck \/ World

SpecCooldown == InitCooldown /\ [][NextCooldown]_vars

-----------------------------------------------------------------------------
(* The boundary check called on every tick of the creature's update, with  *)
(* a diff of at least one millisecond.                                     *)

TickDiffs == { 1, 2500, 2501 }

Min(a, b) == IF a < b THEN a ELSE b

\* One update tick.  ticks counts the calls since the countdown last ran out
\* and elapsed sums their diffs.
Tick ==
    \E diff \in TickDiffs :
        /\ EnterEvadeIfOutOfCombatArea(diff)
        /\ IF EvadeCheckDue(m_uiEvadeCheckCooldown, diff)
           THEN ticks' = 0 /\ elapsed' = 0
           ELSE /\ ticks' = Min(ticks + 1, EvadeCheckInterval + 1)
                /\ elapsed' = Min(elapsed + diff, 2 * EvadeCheckInterval)

InitTick ==
    /\ InitCreature({NPC_NETHERMANCER_SEPETHREA})
    /\ InitNoThreat /\ InitNoSpells /\ InitTicks

NextTick == Tick \/ World

\* The engine updates every creature's AI on every world tick.
SpecTick == InitTick /\ [][NextTick]_vars /\ WF_vars(Tick)

-----------------------------------------------------------------------------
(* Claims about the evade boundary *)

EvadeCheckCalled == call.op = "EnterEvadeIfOutOfCombatArea"

\* The step is a call EnterEvadeIfOutOfCombatArea(d).
EvadeCheckStep(d) == call' = [op |-> "EnterEvadeIfOutOfCombatArea", diff |-> d]

AllDiffs == Diffs \cup CooldownDiffs \cup TickDiffs

\* C1 as stated: a call with diff < c returns false without the geometric test
\* and leaves c - diff; a call with diff >= c (diff = c included) sets the
\* countdown to 2500 and, for a creature with a victim that is not evading,
\* runs the geometric test exactly once.
C1_AsStated ==
    [][\A d \in AllDiffs : EvadeCheckStep(d) =>
          IF d < m_uiEvadeCheckCooldown
          THEN /\ ret' = FALSE
               /\ Count(callLog', "switch") = 0
               /\ m_uiEvadeCheckCooldown' = m_uiEvadeCheckCooldown - d
          ELSE /\ m_uiEvadeCheckCooldown' = EvadeCheckInterval
               /\ (victim /\ ~evadeMode) => Count(callLog', "switch") = 1]_vars

\* C1 amended: a call with diff <= c (diff = c included) returns false without
\* the geometric test and leaves c - diff, which is 0 for diff = c; a call with
\* diff > c sets the countdown to 2500 and, for a creature with a victim that
\* is not evading, runs the geometric test exactly once.
C1_Cooldown ==
    [][\A d \in AllDiffs : EvadeCheckStep(d) =>
          IF d <= m_uiEvadeCheckCooldown
          THEN /\ ret' = FALSE
               /\ Count(callLog', "switch") = 0
               /\ m_uiEvadeCheckCooldown' = m_uiEvadeCheckCooldown - d
          ELSE /\ m_uiEvadeCheckCooldown' = EvadeCheckInterval
               /\ (victim /\ ~evadeMode) => Count(callLog', "switch") = 1]_vars

\* A call whose diff equalled the countdown: it left 0 and ran no test.
C1_Witness ==
    /\ EvadeCheckCalled /\ call.diff = 2500
    /\ m_uiEvadeCheckCooldown = 0
    /\ ret = FALSE /\ callLog = <<>>
    /\ victim /\ ~evadeMode

\* The region each case label states for its own entry (Morogrim Tidewalker's
\* is 304.12 < x < 457.35 and nothing else).
AuthoredRegion(e, p) ==
    CASE e = NPC_BROODLORD -> p.z > 44860
      [] e = NPC_VOID_REAVER -> WithinDistance2d(p, 43259, 37193, 10500)
      [] e = NPC_JAN_ALAI -> p.z > 1200
      [] e = NPC_TALON_KING_IKISS ->
           WithinDistance2d(p, RespawnCoord.x, RespawnCoord.y, 7000)
      [] e = NPC_KARGATH_BLADEFIST -> p.x < 25500 /\ p.x > 20500
      [] e = NPC_NETHERMANCER_SEPETHREA -> p.x > 26600
      [] e = NPC_MOROES ->
           p.x > -1102773 /\ p.x < -1094664 /\ p.y > -195238 /\ p.y < -186111
      [] e = NPC_MOROGRIM_TIDEWALKER -> p.x > 30412 /\ p.x < 45735
      [] e = NPC_ANUBARAK -> p.y < 28100 /\ p.y > 22800
      [] e = NPC_SINDRAGOSA -> p.x > 431400
      [] e = NPC_ZARITHRIAN -> p.z > 8700
      [] OTHER -> TRUE

\* C2: when the geometric test runs for a registered entry, the outcome is that
\* of the entry's own region: inside it the call returns false and
\* EnterEvadeMode is not invoked, outside it EnterEvadeMode is invoked and the
\* call returns true (Morogrim Tidewalker with x outside 304.12..457.35 evades
\* whatever y is).
C2_OwnRegionDecides ==
    (EvadeCheckCalled /\ Count(callLog, "switch") = 1 /\ entry \in RegisteredEntries) =>
        IF AuthoredRegion(entry, pos)
        THEN ret = FALSE /\ Count(callLog, "EnterEvadeMode") = 0
        ELSE ret = TRUE /\ Count(callLog, "EnterEvadeMode") = 1

\* C3: every EnterEvadeMode, called by the engine or by a boundary check that
\* returns true, runs the base cleanup and then Reset, once each, and leaves the
\* creature out of combat without a victim; a boundary check that returns false
\* runs no Reset.  Nethermancer Sepethrea (x > 266.0): at x = 300 a check never
\* evades; at x = 200 a check that reaches the test evades with one Reset.
C3_EvadeThenReset ==
    /\ (call.op = "EnterEvadeMode" \/ (EvadeCheckCalled /\ ret = TRUE)) =>
          /\ Count(callLog, "CreatureAI::EnterEvadeMode") = 1
          /\ Count(callLog, "Reset") = 1
          /\ Precedes(callLog, "CreatureAI::EnterEvadeMode", "Reset")
          /\ ~victim /\ ~inCombat
    /\ (EvadeCheckCalled /\ ret = FALSE) => Count(callLog, "Reset") = 0
    /\ (EvadeCheckCalled /\ entry = NPC_NETHERMANCER_SEPETHREA /\ pos.x = 30000) =>
          ret = FALSE /\ Count(callLog, "EnterEvadeMode") = 0
    /\ (EvadeCheckCalled /\ entry = NPC_NETHERMANCER_SEPETHREA /\ pos.x = 20000
           /\ Count(callLog, "switch") = 1) =>
          ret = TRUE /\ Count(callLog, "Reset") = 1

\* Sepethrea at x = 200 was evaded by a boundary check, with one Reset.
C3_Witness ==
    /\ EvadeCheckCalled /\ entry = NPC_NETHERMANCER_SEPETHREA /\ pos.x = 20000
    /\ ret = TRUE /\ Count(callLog, "Reset") = 1
    /\ ~victim /\ ~inCombat

\* C4: a boundary check made while the creature is evading, has no victim, or
\* is of an entry without a case never invokes EnterEvadeMode and returns
\* false; for an unregistered entry whose switch is reached it reports exactly
\* one diagnostic and changes no combat state.
C4_FailOpen ==
    [][\A d \in AllDiffs :
          (EvadeCheckStep(d) /\ (evadeMode \/ ~victim \/ entry \notin RegisteredEntries)) =>
              /\ ret' = FALSE
              /\ Count(callLog', "EnterEvadeMode") = 0
              /\ Count(callLog', "CreatureAI::EnterEvadeMode") = 0
              /\ UNCHANGED <<victim, evadeMode, inCombat, threatList>>
              /\ (entry \notin RegisteredEntries /\ Count(callLog', "switch") > 0) =>
                    Count(callLog', "script_error_log") = 1
              /\ (entry \in RegisteredEntries \/ Count(callLog', "switch") = 0) =>
                    Count(callLog', "script_error_log") = 0]_vars

\* An unregistered entry in combat reached the switch: one diagnostic, no evade.
C4_Witness ==
    /\ EvadeCheckCalled /\ entry \in UnregisteredEntries
    /\ victim /\ inCombat /\ ~evadeMode
    /\ ret = FALSE /\ callLog = << "switch", "script_error_log" >>

\* The creature is in combat, not evading, of a registered entry, at a position
\* its case of the switch does not accept.
Rejected ==
    /\ victim /\ ~evadeMode
    /\ entry \in RegisteredEntries
    /\ CombatAreaCheck(entry, pos) = "outside"

\* The last tick found the countdown run out (it reached line 424).
CountdownExpired == EvadeCheckCalled /\ ticks = 0

\* C10: with the boundary check called on every tick with diff >= 1, the
\* countdown stays within 0..2500 (no uint32 underflow), it runs out at most
\* 2501 ticks after each reset, again and again, the diffs summed up to a run
\* of the geometric test exceed 2500, and a creature that stays rejected is
\* eventually put into evade mode.
C10_TickDriven ==
    /\ [][/\ m_uiEvadeCheckCooldown' \in 0..EvadeCheckInterval
          /\ ticks' <= EvadeCheckInterval
          /\ \A d \in AllDiffs :
                (EvadeCheckStep(d) /\ Count(callLog', "switch") = 1) =>
                    elapsed + d > EvadeCheckInterval]_vars
    /\ []<>CountdownExpired
    /\ (Rejected ~> (evadeMode \/ ~Rejected))

\* A rejected creature was evaded by a one-millisecond tick on which the
\* countdown ran out.
C10_Witness ==
    /\ EvadeCheckCalled /\ call.diff = 1 /\ ticks = 0
    /\ ret = TRUE /\ evadeMode
    /\ m_uiEvadeCheckCooldown = EvadeCheckInterval

-----------------------------------------------------------------------------
(* The threat list and its reset *)

\* Units that may be on the creature's map, and the most threat one holds.
MaxUnits == 3
MaxThreat == 2

Guids == 1..MaxUnits

\* A unit on the map gains threat (a new entry at the end of the list, or
\* more threat on its entry).
AddThreat ==
    /\ canHaveThreatList
    /\ \E g \in unitsOnMap :
          IF \E i \in 1..Len(threatList) : threatList[i].guid = g
          THEN \E i \in 1..Len(threatList) :
                  /\ threatList[i].guid = g
                  /\ threatList[i].threat < MaxThreat
                  /\ threatList' = [threatList EXCEPT ![i].threat = @ + 1]
          ELSE threatList' = Append(threatList, [guid |-> g, threat |-> 1])
    /\ UNCHANGED <<evadeVars, canHaveThreatList, unitsOnMap>>
    /\ UNCHANGED spellVars
    /\ NoObservation

\* A unit enters the map, or leaves it while its entry is still in the list.
UnitComesOrGoes ==
    /\ \E g \in Guids :
          unitsOnMap' = IF g \in unitsOnMap THEN unitsOnMap \ {g} ELSE unitsOnMap \cup {g}
    /\ UNCHANGED <<evadeVars, threatList, canHaveThreatList>>
    /\ UNCHANGED spellVars
    /\ NoObservation

InitThreat ==
    /\ InitCreature({NPC_BROODLORD})
    /\ pos = Pt(0, 0, 44861)
    /\ threatList = <<>>
    /\ canHaveThreatList \in BOOLEAN
    /\ unitsOnMap = {}
    /\ InitNoSpells /\ InitTicks

NextThreat ==
    \/ DoResetThreat /\ UNCHANGED tickVars
    \/ AddThreat /\ UNCHANGED tickVars
    \/ UnitComesOrGoes /\ UNCHANGED tickVars
    \/ EnterEvadeMode /\ UNCHANGED tickVars

SpecThreat == InitThreat /\ [][NextThreat]_vars

ThreatOf(list) == { <<list[i].guid, list[i].threat>> : i \in 1..Len(list) }

\* C7: DoResetThreat on a creature that cannot have a threat list, or whose
\* list is empty, changes nothing and reports one diagnostic; otherwise it
\* reports none, the list keeps its entries in place, each entry whose unit
\* the map resolves has threat 0, and each other entry keeps its threat.
C7_ResetThreat ==
    [][call' = [op |-> "DoResetThreat"] =>
          IF ~canHaveThreatList \/ threatList = <<>>
          THEN /\ Count(callLog', "script_error_log") = 1
               /\ UNCHANGED <<evadeVars, threatVars, spellVars>>
          ELSE /\ Count(callLog', "script_error_log") = 0
               /\ Len(threatList') = Len(threatList)
               /\ \A i \in 1..Len(threatList) :
                     /\ threatList'[i].guid = threatList[i].guid
                     /\ threatList'[i].threat =
                           IF threatList[i].guid \in unitsOnMap
                           THEN 0 ELSE threatList[i].threat
               /\ UNCHANGED <<evadeVars, canHaveThreatList, unitsOnMap, spellVars>>]_vars

\* A reset over a list of three entries, one of them of a unit that left the
\* map: that one kept its threat, the others are at 0 and still listed.
C7_Witness ==
    /\ call.op = "DoResetThreat" /\ callLog = <<>>
    /\ Len(threatList) = 3
    /\ \E i \in 1..3 : threatList[i].guid \notin unitsOnMap /\ threatList[i].threat = 2
    /\ \E i \in 1..3 : threatList[i].guid \in unitsOnMap /\ threatList[i].threat = 0

-----------------------------------------------------------------------------
(* Spells: a creature with four spell slots, a target at some distance, and *)
(* a small spell database.                                                  *)

Spell(school, mech, cost, ptype, rng, effects, targets, auras) ==
    [SchoolMask |-> school, Mechanic |-> mech, manaCost |-> cost, powerType |-> ptype,
     rangeIndex |-> rng, Effect |-> effects, EffectImplicitTargetA |-> targets,
     EffectApplyAuraName |-> auras]

\* A database of six ids: 0 and 5 hold no spell, 4 names a range that the
\* range store does not hold.
SampleStore ==
    [maxEntry |-> 6,
     entries |->
        (1 :> Spell(4, 0, 50, "POWER_MANA", 2,
                    << "SPELL_EFFECT_SCHOOL_DAMAGE", "NONE", "NONE" >>,
                    << "TARGET_CHAIN_DAMAGE", "TARGET_NONE", "TARGET_NONE" >>,
                    << 0, 0, 0 >>))
     @@ (2 :> Spell(2, 0, 40, "POWER_MANA", 1,
                    << "SPELL_EFFECT_APPLY_AURA", "NONE", "NONE" >>,
                    << "TARGET_SINGLE_FRIEND", "TARGET_NONE", "TARGET_NONE" >>,
                    << 8, 0, 0 >>))
     @@ (3 :> Spell(1, 12, 0, "POWER_RAGE", 1,
                    << "SPELL_EFFECT_SCHOOL_DAMAGE", "SPELL_EFFECT_APPLY_AURA", "NONE" >>,
                    << "TARGET_ALL_ENEMY_IN_AREA", "TARGET_CASTER_COORDINATES", "TARGET_NONE" >>,
                    << 0, 12, 0 >>))
     @@ (4 :> Spell(1, 0, 0, "POWER_MANA", 3,
                    << "SPELL_EFFECT_HEAL", "NONE", "NONE" >>,
                    << "TARGET_SELF", "TARGET_NONE", "TARGET_NONE" >>,
                    << 0, 0, 0 >>))]

\* The ids a creature's slots hold: no spell (0), the spells of the database,
\* and an id past its end.
SlotIds == { 0, 1, 2, 3, 4, 6 }

\* The mana the creature has, and how far its target is, in yards.
PowerSamples == { 40, 50 }
DistSamples == { 0, 5, 20 }

\* What memory that was never written may read as.
GarbageSamples == { ZeroSummary, [Targets |-> 255, Effects |-> 255] }

\* The creature's spells and target when its AI is constructed: the script
\* library was loaded before, and its loading ran FillSpellSummary.
InitSpells(store, slotIds, powers, dists) ==
    /\ spellStore = store
    /\ heapGarbage \in GarbageSamples
    /\ SpellSummary = BuildSpellSummary(store, heapGarbage)
    /\ m_spells \in [0..(CREATURE_MAX_SPELLS - 1) -> slotIds]
    /\ \E mana \in powers : power = [POWER_MANA |-> mana, POWER_RAGE |-> 0]
    /\ silenced \in BOOLEAN
    /\ targetDist \in dists

NoFilter ==
    [target |-> TRUE, school |-> -1, mechanic |-> -1,
     selectTargets |-> SELECT_TARGET_DONTCARE, powerCostMin |-> 0, powerCostMax |-> 0,
     rangeMin |-> 0, rangeMax |-> 0, selectEffects |-> SELECT_EFFECT_DONTCARE]

\* The arguments SelectSpell is called with: no filter, each filter alone,
\* and a target class together with an effect class.
SelectArgs ==
    { NoFilter,
      [NoFilter EXCEPT !.target = FALSE],
      [NoFilter EXCEPT !.school = 4],
      [NoFilter EXCEPT !.mechanic = 12],
      [NoFilter EXCEPT !.powerCostMin = 40],
      [NoFilter EXCEPT !.powerCostMax = 40],
      [NoFilter EXCEPT !.rangeMin = 30],
      [NoFilter EXCEPT !.rangeMax = 5] }
    \cup { [NoFilter EXCEPT !.selectTargets = t] :
              t \in SELECT_TARGET_SELF..SELECT_TARGET_ANY_FRIEND }
    \cup { [NoFilter EXCEPT !.selectEffects = e] :
              e \in SELECT_EFFECT_DAMAGE..SELECT_EFFECT_AURA }
    \cup { [NoFilter EXCEPT !.selectTargets = t, !.selectEffects = e] :
              t \in {SELECT_TARGET_ANY_ENEMY, SELECT_TARGET_SINGLE_FRIEND},
              e \in {SELECT_EFFECT_DAMAGE, SELECT_EFFECT_HEALING} }

\* The arguments CanCast is called with: every spell of the database and
\* nullptr for a target that is there, one spell for a target that is not.
CanCastArgs ==
    { [target |-> TRUE, spellInfo |-> sp, triggered |-> tr] :
         sp \in { <<>> } \cup { <<id>> : id \in DOMAIN SampleStore.entries },
         tr \in BOOLEAN }
    \cup { [target |-> FALSE, spellInfo |-> <<1>>, triggered |-> tr] : tr \in BOOLEAN }

InitSpell ==
    /\ InitCreature({NPC_BROODLORD}) /\ pos = Pt(0, 0, 44861)
    /\ InitNoThreat /\ InitTicks
    /\ InitSpells(SampleStore, SlotIds, PowerSamples, DistSamples)

\* No handler is running: the script's update is between two calls.
Idle == call = NoCall

\* The handler's result has been used; the update goes on.
Return ==
    /\ ~Idle
    /\ NoObservation
    /\ UNCHANGED <<evadeVars, threatVars, spellVars, tickVars>>

NextSpell ==
    \/ Idle /\ FillSpellSummary /\ UNCHANGED tickVars
    \/ \E a \in SelectArgs : Idle /\ SelectSpell(a) /\ UNCHANGED tickVars
    \/ \E c \in CanCastArgs :
          Idle /\ CanCast(c.target, c.spellInfo, c.triggered) /\ UNCHANGED tickVars
    \/ Return

SpecSpell == InitSpell /\ [][NextSpell]_vars

SelectSpellCalled == call.op = "SelectSpell"

Slots == 0..(CREATURE_MAX_SPELLS - 1)

\* Slot i holds a spell that passes every check of SelectSpell called with a.
Survives(i, a) ==
    LET id == m_spells[i]
        info == spellStore.entries[id]
        range == SpellRangeStore[info.rangeIndex]
    IN  /\ a.target /\ ~silenced
        /\ id \in DOMAIN spellStore.entries
        /\ a.selectTargets # 0 => HasBit(SpellSummary[id].Targets, a.selectTargets - 1)
        /\ a.selectEffects # 0 => HasBit(SpellSummary[id].Effects, a.selectEffects - 1)
        /\ a.school >= 0 => ~BitAndNonZero(info.SchoolMask, a.school)
        /\ a.mechanic >= 0 => info.Mechanic = a.mechanic
        /\ a.powerCostMin # 0 => info.manaCost >= a.powerCostMin
        /\ a.powerCostMax # 0 => info.manaCost <= a.powerCostMax
        /\ info.manaCost <= power[info.powerType]
        /\ info.rangeIndex \in DOMAIN SpellRangeStore
        /\ a.rangeMin # 0 => range.maxRange >= a.rangeMin
        /\ a.rangeMax # 0 => range.maxRange <= a.rangeMax
        /\ ~IsWithinDistInMap(range.minRange) /\ IsWithinDistInMap(range.maxRange)

\* C5: CanCast returns true exactly when the target and the spell are there,
\* the cast is triggered or the caster is neither silenced nor short of the
\* spell's cost, the spell's range exists and the target is within
\* [minRange, maxRange]; so spell 1 (cost 50) with 40 mana and the target in
\* range can be cast triggered and cannot be cast otherwise.  The call changes
\* nothing of the creature, its threat or its spells.
C5_CanCast ==
    [][call'.op = "CanCast" =>
          LET c == call'
              info == spellStore.entries[c.spellInfo[1]]
              range == SpellRangeStore[info.rangeIndex]
          IN  /\ ret' = TRUE <=>
                    /\ c.target
                    /\ c.spellInfo # <<>>
                    /\ c.triggered \/ (~silenced /\ ~(power[info.powerType] < info.manaCost))
                    /\ info.rangeIndex \in DOMAIN SpellRangeStore
                    /\ range.minRange <= targetDist /\ targetDist <= range.maxRange
              /\ (c.target /\ c.spellInfo = <<1>> /\ power["POWER_MANA"] = 40
                     /\ targetDist = 20) =>
                    ret' = c.triggered
              /\ UNCHANGED <<evadeVars, threatVars, spellVars>>]_vars

\* The spell of cost 50 was found castable as a triggered cast with 40 mana.
C5_Witness ==
    /\ call.op = "CanCast" /\ call.target /\ call.spellInfo = <<1>> /\ call.triggered
    /\ power["POWER_MANA"] = 40 /\ silenced
    /\ ret = TRUE

\* C6: SelectSpell returns nullptr or a spell of one of the creature's slots;
\* the spell returned never costs more than the creature's power, never has
\* the target outside its own [minRange, maxRange], never lacks a target class
\* or effect class that was asked for; nullptr is returned exactly when no
\* slot survives all checks, and a single surviving slot is returned whatever
\* urand draws.
C6_SelectSpell ==
    SelectSpellCalled =>
        LET a == call.args
            survivors == { i \in Slots : Survives(i, a) }
        IN  /\ Len(spellRet) <= 1
            /\ spellRet # <<>> =>
                  LET id == spellRet[1]
                      info == spellStore.entries[id]
                      range == SpellRangeStore[info.rangeIndex]
                  IN  /\ \E i \in Slots : m_spells[i] = id
                      /\ id \in DOMAIN spellStore.entries
                      /\ info.manaCost <= power[info.powerType]
                      /\ range.minRange <= targetDist /\ targetDist <= range.maxRange
                      /\ a.selectTargets # 0 =>
                            HasBit(SpellSummary[id].Targets, a.selectTargets - 1)
                      /\ a.selectEffects # 0 =>
                            HasBit(SpellSummary[id].Effects, a.selectEffects - 1)
                      /\ \E i \in survivors : m_spells[i] = id
            /\ spellRet = <<>> <=> survivors = {}
            /\ \A i \in Slots : survivors = {i} => spellRet = << m_spells[i] >>

\* Two different spells survived and the second of them was drawn.
C6_Witness ==
    /\ SelectSpellCalled
    /\ Survives(0, call.args) /\ Survives(1, call.args)
    /\ m_spells[0] # m_spells[1]
    /\ spellRet = << m_spells[1] >>
    /\ call.args.selectEffects # 0

\* Ids that are looked at: every id of the database, and two past its end.
ProbeIds == 0..(GetMaxEntry(spellStore) + 1)

\* C8 as stated: after FillSpellSummary, SpellSummary yields zero Targets and
\* Effects for every id outside [0, maxEntry) or absent from the database,
\* every id in [0, maxEntry) has exactly one entry, and SelectSpell reads the
\* array only at such ids.
C8_AsStated ==
    SummaryBuilt =>
        /\ \A id \in ProbeIds :
              (id \notin 0..(GetMaxEntry(spellStore) - 1) \/ ~SpellExists(spellStore, id)) =>
                  SpellSummaryAt(id) = ZeroSummary
        /\ \A id \in 0..(GetMaxEntry(spellStore) - 1) : id \in DOMAIN SpellSummary
        /\ summaryReads \subseteq DOMAIN SpellSummary

\* C8 amended: after FillSpellSummary the array holds exactly one entry for
\* every id in [0, maxEntry) and none for any other id (a read there is out of
\* bounds, not zero); the entry of an id in [0, maxEntry) that is absent from
\* the database has zero Targets and Effects; and SelectSpell reads the array
\* only at ids in [0, maxEntry) that the database holds.
C8_SummaryIndex ==
    SummaryBuilt =>
        /\ DOMAIN SpellSummary = 0..(GetMaxEntry(spellStore) - 1)
        /\ \A id \in 0..(GetMaxEntry(spellStore) - 1) :
              ~SpellExists(spellStore, id) => SpellSummary[id] = ZeroSummary
        /\ summaryReads \subseteq
              { id \in 0..(GetMaxEntry(spellStore) - 1) : SpellExists(spellStore, id) }

\* SelectSpell filtered a creature whose slots hold a spell, an absent id and
\* an id past the end of the array, over memory that does not read as zero.
C8_Witness ==
    /\ SummaryBuilt /\ SelectSpellCalled
    /\ heapGarbage # ZeroSummary
    /\ summaryReads # {}
    /\ \E i, j \in Slots : m_spells[i] = 0 /\ m_spells[j] = GetMaxEntry(spellStore)

-----------------------------------------------------------------------------
(* The script library's load: FillSpellSummary over a database whose spell  *)
(* 1 takes every implicit target and every effect in each of its slots.     *)

\* The values of EffectImplicitTargetA the build tells apart, one it does not
\* (TARGET_PET), and none.
TargetDescriptors ==
    { "TARGET_NONE", "TARGET_SELF", "TARGET_CHAIN_DAMAGE", "TARGET_PET",
      "TARGET_CURRENT_ENEMY_COORDINATES", "TARGET_ALL_ENEMY_IN_AREA",
      "TARGET_ALL_ENEMY_IN_AREA_INSTANT", "TARGET_CASTER_COORDINATES",
      "TARGET_ALL_ENEMY_IN_AREA_CHANNELED", "TARGET_SINGLE_FRIEND",
      "TARGET_SINGLE_PARTY", "TARGET_ALL_PARTY_AROUND_CASTER",
      "TARGET_AREAEFFECT_PARTY" }

\* The values of Effect the build tells apart, one it does not
\* (SPELL_EFFECT_DUMMY), and none; each with the EffectApplyAuraName of its
\* slot: a periodic heal or another aura.
EffectKinds ==
    { [e |-> e, aura |-> aura] :
         e \in { "NONE", "SPELL_EFFECT_DUMMY", "SPELL_EFFECT_SCHOOL_DAMAGE",
                 "SPELL_EFFECT_INSTAKILL", "SPELL_EFFECT_ENVIRONMENTAL_DAMAGE",
                 "SPELL_EFFECT_HEALTH_LEECH", "SPELL_EFFECT_HEAL",
                 "SPELL_EFFECT_HEAL_MAX_HEALTH", "SPELL_EFFECT_HEAL_MECHANICAL" },
         aura \in { 0 } }
    \cup { [e |-> "SPELL_EFFECT_APPLY_AURA", aura |-> aura] :
              aura \in { 0, 3, SPELL_AURA_PERIODIC_HEAL } }
    \cup { [e |-> "SPELL_EFFECT_SCHOOL_DAMAGE", aura |-> SPELL_AURA_PERIODIC_HEAL] }

EffectSlots == 1..MAX_EFFECT_INDEX

\* Targets and effects of a spell's three slots that the other half of the
\* database is built around.
FixedTargets ==
    { << "TARGET_NONE", "TARGET_NONE", "TARGET_NONE" >>,
      << "TARGET_SELF", "TARGET_CASTER_COORDINATES", "TARGET_NONE" >>,
      << "TARGET_CHAIN_DAMAGE", "TARGET_AREAEFFECT_PARTY", "TARGET_SINGLE_FRIEND" >> }

FixedEffects ==
    { << [e |-> "NONE", aura |-> 0], [e |-> "NONE", aura |-> 0], [e |-> "NONE", aura |-> 0] >>,
      << [e |-> "SPELL_EFFECT_APPLY_AURA", aura |-> SPELL_AURA_PERIODIC_HEAL],
         [e |-> "SPELL_EFFECT_SCHOOL_DAMAGE", aura |-> 0], [e |-> "NONE", aura |-> 0] >>,
      << [e |-> "SPELL_EFFECT_HEAL", aura |-> 0],
         [e |-> "SPELL_EFFECT_APPLY_AURA", aura |-> 3], [e |-> "NONE", aura |-> 0] >> }

\* A database of three ids: 0 holds no spell, 1 the spell with the given slots,
\* 2 a spell without effects.
FillStore(targets, kinds) ==
    [maxEntry |-> 3,
     entries |->
        (1 :> Spell(1, 0, 0, "POWER_MANA", 1,
                    [j \in EffectSlots |-> kinds[j].e], targets,
                    [j \in EffectSlots |-> kinds[j].aura]))
     @@ (2 :> Spell(1, 0, 0, "POWER_MANA", 1,
                    << "NONE", "NONE", "NONE" >>,
                    << "TARGET_NONE", "TARGET_NONE", "TARGET_NONE" >>,
                    << 0, 0, 0 >>))]

\* The process before the script library is loaded: SpellSummary is not
\* allocated yet.
InitFill ==
    /\ InitCreature({NPC_BROODLORD}) /\ pos = Pt(0, 0, 44861)
    /\ InitNoThreat /\ InitTicks
    /\ \/ \E targets \in [EffectSlots -> TargetDescriptors], kinds \in FixedEffects :
             spellStore = FillStore(targets, kinds)
       \/ \E targets \in FixedTargets, kinds \in [EffectSlots -> EffectKinds] :
             spellStore = FillStore(targets, kinds)
    /\ SpellSummary = <<>>
    /\ heapGarbage \in GarbageSamples
    /\ m_spells = [i \in 0..(CREATURE_MAX_SPELLS - 1) |-> 0]
    /\ power = [POWER_MANA |-> 0, POWER_RAGE |-> 0]
    /\ silenced = FALSE
    /\ targetDist = 0

NextFill ==
    \/ Idle /\ FillSpellSummary /\ UNCHANGED tickVars
    \/ Return

SpecFill == InitFill /\ [][NextFill]_vars

\* Bit sel of an entry's Targets, of its Effects.
TargetBit(sum, sel) == HasBit(sum.Targets, sel - 1)
EffectBit(sum, sel) == HasBit(sum.Effects, sel - 1)

\* C9: each entry FillSpellSummary builds has any-enemy set when single-enemy
\* or aoe-enemy is, any-friend set when single-friend or aoe-friend is,
\* single-friend and any-friend set when self is, the aura bit set when the
\* healing bit comes from an apply-aura slot; each bit of an entry is set
\* exactly when one of the spell's slots sets it; and a second build from the
\* same database leaves every entry as it was.
C9_FlagClosure ==
    [][call'.op = "FillSpellSummary" =>
          /\ \A id \in DOMAIN SpellSummary' :
                LET sum == SpellSummary'[id]
                    spell == spellStore.entries[id]
                    auraHeal == { j \in EffectSlots :
                                     /\ spell.Effect[j] = "SPELL_EFFECT_APPLY_AURA"
                                     /\ spell.EffectApplyAuraName[j] = SPELL_AURA_PERIODIC_HEAL }
                    directHeal == { j \in EffectSlots :
                                       spell.Effect[j] \in { "SPELL_EFFECT_HEAL",
                                                             "SPELL_EFFECT_HEAL_MAX_HEALTH",
                                                             "SPELL_EFFECT_HEAL_MECHANICAL" } }
                IN  /\ TargetBit(sum, SELECT_TARGET_SINGLE_ENEMY) => TargetBit(sum, SELECT_TARGET_ANY_ENEMY)
                    /\ TargetBit(sum, SELECT_TARGET_AOE_ENEMY) => TargetBit(sum, SELECT_TARGET_ANY_ENEMY)
                    /\ TargetBit(sum, SELECT_TARGET_SINGLE_FRIEND) => TargetBit(sum, SELECT_TARGET_ANY_FRIEND)
                    /\ TargetBit(sum, SELECT_TARGET_AOE_FRIEND) => TargetBit(sum, SELECT_TARGET_ANY_FRIEND)
                    /\ TargetBit(sum, SELECT_TARGET_SELF) =>
                          /\ TargetBit(sum, SELECT_TARGET_SINGLE_FRIEND)
                          /\ TargetBit(sum, SELECT_TARGET_ANY_FRIEND)
                    /\ SpellExists(spellStore, id) =>
                          /\ auraHeal # {} =>
                                /\ EffectBit(sum, SELECT_EFFECT_HEALING)
                                /\ EffectBit(sum, SELECT_EFFECT_AURA)
                          /\ (EffectBit(sum, SELECT_EFFECT_HEALING) /\ directHeal = {}) =>
                                (auraHeal # {} /\ EffectBit(sum, SELECT_EFFECT_AURA))
                          /\ \A k \in 0..7 :
                                /\ HasBit(sum.Targets, k) <=>
                                      \E j \in EffectSlots :
                                         HasBit(SlotTargets(0, spell.EffectImplicitTargetA[j]), k)
                                /\ HasBit(sum.Effects, k) <=>
                                      \E j \in EffectSlots :
                                         HasBit(SlotEffects(0, spell.Effect[j],
                                                            spell.EffectApplyAuraName[j]), k)
          /\ SummaryBuilt => SpellSummary' = SpellSummary]_vars

\* A build has run over a spell that targets the caster and the
\* caster's coordinates and applies a periodic heal: its entry holds the self,
\* aoe-enemy, any-enemy, every friend bit, and the healing and aura bits.
C9_Witness ==
    /\ call.op = "FillSpellSummary" /\ ticks = 0
    /\ SummaryBuilt
    /\ spellStore.entries[1].EffectImplicitTargetA =
          << "TARGET_SELF", "TARGET_CASTER_COORDINATES", "TARGET_NONE" >>
    /\ spellStore.entries[1].Effect[1] = "SPELL_EFFECT_APPLY_AURA"
    /\ spellStore.entries[1].EffectApplyAuraName[1] = SPELL_AURA_PERIODIC_HEAL
    /\ SpellSummary[1].Targets = 1 + 4 + 8 + 16 + 32 + 64
    /\ EffectBit(SpellSummary[1], SELECT_EFFECT_HEALING)
    /\ EffectBit(SpellSummary[1], SELECT_EFFECT_AURA)
    /\ SpellSummary[0] = ZeroSummary

====
